---------------------------- MODULE Spec2Model ----------------------------
(***************************************************************************)
(* A model of visualize/core.py: the frame-rate meter FPS, the stopwatch   *)
(* Timer, the scoped timer Runcodes, the decorator timing and the colour   *)
(* range detector ColorFind.                                               *)
(*                                                                         *)
(* Clock readings are integers (ticks).  A Python float quotient a / b is  *)
(* kept exact, as the pair [num |-> a, den |-> b].  Each component has its *)
(* own specification; the variables of the other components stay at their *)
(* initial values in it.                                                   *)
(***************************************************************************)
EXTENDS Integers, Sequences, FiniteSets, TLC

VARIABLES
    \* FPS
    pTime,        \* FPS.pTime
    fpsCall,      \* the last FPS.update call: its inputs, result and the readings
    \* Timer
    times,        \* Timer.times
    gap,          \* Timer.gap
    timerCall,    \* the last Timer method call: its result and the state before it
                  \* (restarted: start() has been called after a stop())
    recorded,     \* the values stop() has returned, in call order
    \* Runcodes and timing
    stdout,       \* the lines printed so far
    runcodes,     \* a Runcodes object: description and timer
    scope,        \* where the with statement over it stands
    timingCfg,    \* timing(decimal)(function): decimal and function.__name__
    wrapCall,     \* where the last call of timingwrap stands
    invoked,      \* the arguments of every invocation of the wrapped function
    \* ColorFind
    trackBar,     \* ColorFind.trackBar
    sliders,      \* the positions of the six trackbars of the window
    frame,        \* the image given to the detector
    colorArg,     \* the myColor / HsvVals argument of the caller
    colorCall,    \* the last ColorFind call and what it returned
    protMask,     \* the mask array given to protect_region (changed in place)
    protArg,      \* the threshold argument of the caller
    protCall      \* the last protect_region call: the mask before it, the result

fpsVars == <<pTime, fpsCall>>
timerVars == <<times, gap, timerCall, recorded>>
runVars == <<runcodes, scope>>
wrapVars == <<timingCfg, wrapCall, invoked>>
colorVars == <<trackBar, sliders, frame, colorArg, colorCall>>
protVars == <<protMask, protArg, protCall>>
vars == <<fpsVars, timerVars, stdout, runVars, wrapVars, colorVars, protVars>>

(***************************************************************************)
(* Bounds of the model.                                                    *)
(***************************************************************************)
MaxFpsClock == 7
MaxClock == 2
MaxSamples == 3
MaxScopes == 2
MaxCalls == 2
MaxPixels == 2
MaxH == 2
MaxW == 2

\* The readings time.time() can give.  It is the wall clock: it may be set
\* back between two readings, so a later reading can be smaller.
Clock == 0..MaxClock
FpsClock == 0..MaxFpsClock

\* Python's a / b on numbers, for b # 0.
Quot(a, b) == [num |-> a, den |-> b]

\* int(x) of a quotient: truncation toward zero.
IntOf(q) ==
    LET n == IF q.num < 0 THEN -q.num ELSE q.num
        d == IF q.den < 0 THEN -q.den ELSE q.den
        m == n \div d
    IN IF (q.num < 0) # (q.den < 0) THEN -m ELSE m

(***************************************************************************)
(* FPS                                                                     *)
(***************************************************************************)
\* What a caller passes as img: nothing, or the frame to draw on (text is
\* what has been drawn on it).
NoImg == [kind |-> "None", text |-> <<>>]
FrameImg == [kind |-> "ndarray", text |-> <<>>]
FpsImgs == {NoImg, FrameImg}

\* cv2.putText(img, f'FPS: {int(fps)}', ...): draws the text on img in place.
putText(img, fps) == [img EXCEPT !.text = Append(@, IntOf(fps))]

\* The integer 0 of the except branch.
FpsZero == [kind |-> "int", fps |-> Quot(0, 1), img |-> NoImg]

\* The body of FPS.update without the try/except: the state and the result
\* it ends with, or the exception that leaves it.
FPS_update_try(self_pTime, cTime, img) ==
    IF cTime - self_pTime = 0
    THEN [pTime |-> self_pTime, ret |-> FpsZero, raised |-> "ZeroDivisionError"]
    ELSE LET fps == Quot(1, cTime - self_pTime) IN
         IF img = NoImg
         THEN [pTime |-> cTime,
               ret |-> [kind |-> "float", fps |-> fps, img |-> NoImg],
               raised |-> "none"]
         ELSE [pTime |-> cTime,
               ret |-> [kind |-> "tuple", fps |-> fps, img |-> putText(img, fps)],
               raised |-> "none"]

\* FPS.update without the except branch.
FPS_update_uncaught(self_pTime, cTime, img) == FPS_update_try(self_pTime, cTime, img)

\* FPS.update with pTime assigned only on the branch that returns fps alone.
FPS_update_stale(self_pTime, cTime, img) ==
    LET r == FPS_update_try(self_pTime, cTime, img) IN
    IF r.raised # "none"
    THEN [pTime |-> r.pTime, ret |-> FpsZero, raised |-> "none"]
    ELSE IF img = NoImg THEN r ELSE [r EXCEPT !.pTime = self_pTime]

\* FPS.update: a bare except turns every exception of the body into return 0.
FPS_update(self_pTime, cTime, img) ==
    LET r == FPS_update_try(self_pTime, cTime, img) IN
    IF r.raised # "none"
    THEN [pTime |-> r.pTime, ret |-> FpsZero, raised |-> "none"]
    ELSE r

NoFpsCall == [op |-> "init", img |-> NoImg, pre |-> 0, prev |-> 0, now |-> 0,
              ret |-> FpsZero, raised |-> "none"]

\* FPS.__init__: pTime = time.time().
FPSInit ==
    /\ pTime \in FpsClock
    /\ fpsCall = [NoFpsCall EXCEPT !.pre = pTime, !.prev = pTime, !.now = pTime]

\* One call of update.  pre is self.pTime as the call finds it, prev the
\* reading the preceding call (or the constructor) took, now the reading
\* this call takes.
FPSUpdate ==
    \E cTime \in FpsClock, img \in FpsImgs :
        LET r == FPS_update(pTime, cTime, img) IN
        /\ pTime' = r.pTime
        /\ fpsCall' = [op |-> "update", img |-> img, pre |-> pTime,
                       prev |-> fpsCall.now,
                       now |-> cTime, ret |-> r.ret, raised |-> r.raised]

(***************************************************************************)
(* Timer                                                                   *)
(***************************************************************************)
\* sum(xs): left to right from 0.
RECURSIVE sum(_)
sum(xs) == IF xs = <<>> THEN 0 ELSE sum(SubSeq(xs, 1, Len(xs) - 1)) + xs[Len(xs)]

\* np.array(xs).cumsum().tolist(): the running sums, accumulated in order.
RECURSIVE cumsum(_)
cumsum(xs) ==
    IF xs = <<>> THEN <<>>
    ELSE LET c == cumsum(SubSeq(xs, 1, Len(xs) - 1)) IN
         Append(c, (IF c = <<>> THEN 0 ELSE c[Len(c)]) + xs[Len(xs)])

\* A method's result: a number, a quotient, a list, or nothing.
RetNone == [kind |-> "None", val |-> 0, q |-> Quot(0, 1), list |-> <<>>]
RetNum(v) == [RetNone EXCEPT !.kind = "num", !.val = v]
RetQuot(q) == [RetNone EXCEPT !.kind = "quot", !.q = q]
RetList(l) == [RetNone EXCEPT !.kind = "list", !.list = l]

\* Timer.start with the samples cleared as well.
Timer_start_reset(self, now) == [times |-> <<>>, gap |-> now]

\* Timer.start: self.gap = time.time().
Timer_start(self, now) == [times |-> self.times, gap |-> now]

\* Timer.stop: appends time.time() - self.gap and returns it.
Timer_stop(self, now) ==
    LET ts == Append(self.times, now - self.gap) IN
    [self |-> [times |-> ts, gap |-> self.gap], ret |-> RetNum(ts[Len(ts)])]

\* Timer.avg returning 0 when there is no sample.
Timer_avg_zero(self) ==
    IF Len(self.times) = 0
    THEN [ret |-> RetNum(0), raised |-> "none"]
    ELSE [ret |-> RetQuot(Quot(sum(self.times), Len(self.times))), raised |-> "none"]

\* Timer.avg: sum(self.times) / len(self.times).
Timer_avg(self) ==
    IF Len(self.times) = 0
    THEN [ret |-> RetNone, raised |-> "ZeroDivisionError"]
    ELSE [ret |-> RetQuot(Quot(sum(self.times), Len(self.times))), raised |-> "none"]

\* Timer.total: sum(self.times); sum([]) is 0.
Timer_total(self) == [ret |-> RetNum(sum(self.times)), raised |-> "none"]

\* Timer.cumsum.
Timer_cumsum(self) == [ret |-> RetList(cumsum(self.times)), raised |-> "none"]

TimerSelf == [times |-> times, gap |-> gap]

\* Timer(): times = [], then start().
Timer_new(now) == Timer_start([times |-> <<>>, gap |-> 0], now)

TimerInit ==
    /\ \E now \in Clock :
         LET s == Timer_new(now) IN
         /\ times = s.times
         /\ gap = s.gap
         /\ timerCall = [op |-> "init", pre |-> s, ret |-> RetNone, raised |-> "none",
                         restarted |-> FALSE]
    /\ recorded = <<>>

TimerStart ==
    \E now \in Clock :
        LET s == Timer_start(TimerSelf, now) IN
        /\ times' = s.times
        /\ gap' = s.gap
        /\ timerCall' = [op |-> "start", pre |-> TimerSelf, ret |-> RetNone,
                         raised |-> "none",
                         restarted |-> timerCall.restarted \/ Len(times) >= 1]
        /\ UNCHANGED recorded

TimerStop ==
    /\ Len(times) < MaxSamples
    /\ \E now \in Clock :
        LET r == Timer_stop(TimerSelf, now) IN
        /\ times' = r.self.times
        /\ gap' = r.self.gap
        /\ timerCall' = [op |-> "stop", pre |-> TimerSelf, ret |-> r.ret,
                         raised |-> "none", restarted |-> timerCall.restarted]
        /\ recorded' = Append(recorded, r.ret.val)

\* A query: it reads the timer and changes nothing.
TimerQuery(op, r) ==
    /\ timerCall' = [op |-> op, pre |-> TimerSelf, ret |-> r.ret, raised |-> r.raised,
                     restarted |-> timerCall.restarted]
    /\ UNCHANGED <<times, gap, recorded>>

TimerAvg == TimerQuery("avg", Timer_avg(TimerSelf))

TimerTotal == TimerQuery("total", Timer_total(TimerSelf))

TimerCumsum == TimerQuery("cumsum", Timer_cumsum(TimerSelf))

(***************************************************************************)
(* Runcodes                                                                *)
(***************************************************************************)
Descriptions == {"Done", "inference time"}
Exceptions == {"ValueError", "KeyboardInterrupt"}

\* f'{x:.7f}' and "{:.{}f}".format(x, decimal): x with that many decimals.
Fixed(x, decimal) == [value |-> x, decimals |-> decimal]

\* A printed line: the words before the number, and the number.
Line(words, number) == [words |-> words, number |-> number]
NoNumber == Fixed(0, 0)

NoTimer == [set |-> FALSE, times |-> <<>>, gap |-> 0]

\* Runcodes.__enter__ that keeps the timer of an earlier scope and restarts it.
Runcodes_enter_reuse(self, now) ==
    IF self.timer.set
    THEN [self EXCEPT !.timer.gap = now]
    ELSE [self EXCEPT !.timer = [set |-> TRUE, times |-> <<>>, gap |-> now]]

\* Runcodes.__enter__: self.timer = Timer().
Runcodes_enter(self, now) ==
    LET t == Timer_new(now) IN
    [self EXCEPT !.timer = [set |-> TRUE, times |-> t.times, gap |-> t.gap]]

\* Runcodes.__exit__: stops the timer, prints the line, returns None (so the
\* with statement lets an exception of the body go on).
Runcodes_exit(self, now) ==
    LET r == Timer_stop([times |-> self.timer.times, gap |-> self.timer.gap], now) IN
    [self |-> [self EXCEPT !.timer.times = r.self.times],
     out |-> <<Line(<<self.description, ": ", " sec">>, Fixed(r.ret.val, 7))>>,
     ret |-> FALSE]

NoScope == [pc |-> "outside", entered |-> 0, enterAt |-> 0, exitAt |-> 0, body |-> "none",
            propagated |-> "none"]

\* Runcodes(description).
RuncodesInit ==
    /\ \E d \in Descriptions : runcodes = [description |-> d, timer |-> NoTimer]
    /\ scope = NoScope

\* with runcodes: the statement calls __enter__ and starts the body.
RuncodesEnter ==
    /\ scope.pc = "outside"
    /\ scope.entered < MaxScopes
    /\ \E now \in Clock :
        /\ runcodes' = Runcodes_enter(runcodes, now)
        /\ scope' = [pc |-> "body", entered |-> scope.entered + 1, enterAt |-> now,
                     exitAt |-> now, body |-> "none", propagated |-> "none"]
    /\ UNCHANGED stdout

\* The body ends: it runs off its end, or an exception leaves it.
RuncodesBodyEnds ==
    /\ scope.pc = "body"
    /\ \E e \in Exceptions \cup {"none"} :
        scope' = [scope EXCEPT !.pc = "exiting", !.body = e]
    /\ UNCHANGED <<runcodes, stdout>>

\* The with statement calls __exit__ with what ended the body, and raises
\* the body's exception again unless __exit__ returned a true value.
RuncodesExit ==
    /\ scope.pc = "exiting"
    /\ \E now \in Clock :
        LET r == Runcodes_exit(runcodes, now) IN
        /\ runcodes' = r.self
        /\ stdout' = stdout \o r.out
        /\ scope' = [scope EXCEPT !.pc = "outside", !.exitAt = now,
                                  !.propagated = IF r.ret THEN "none" ELSE scope.body]

(***************************************************************************)
(* timing                                                                  *)
(***************************************************************************)
Names == {"test_function", "f"}
Decimals == {0, 5}
Args == {"args1", "args2"}
Results == {"None", "res1"}

\* The end of timingwrap without its return statement.
timingwrap_end_noreturn(cfg, start, end, res) ==
    LET execution_time == end - start IN
    [out |-> <<Line(<<cfg.name, "delta time (s) =">>,
                    Fixed(execution_time, cfg.decimal))>>,
     ret |-> "None"]

\* timingwrap up to the call of the function: prints its name, reads the
\* clock, calls function(*args, **kwargs).
timingwrap_begin(cfg, start, args) ==
    [out |-> <<Line(<<cfg.name>>, NoNumber)>>, start |-> start, call |-> args]

\* timingwrap once the function has returned res: reads the clock, prints
\* the name and the elapsed time, returns res.
timingwrap_end(cfg, start, end, res) ==
    LET execution_time == end - start IN
    [out |-> <<Line(<<cfg.name, "delta time (s) =">>,
                    Fixed(execution_time, cfg.decimal))>>,
     ret |-> res]

\* timingwrap when the function raises e: no handler, e leaves the wrapper.
timingwrap_raise(cfg, e) == [out |-> <<>>, raised |-> e]

NoWrapCall == [pc |-> "idle", calls |-> 0, args |-> "none", start |-> 0, end |-> 0,
               outBefore |-> 0, result |-> "none", thrown |-> "none",
               ret |-> "none", raised |-> "none"]

\* @timing(decimal) over a function.
TimingInit ==
    /\ \E n \in Names, d \in Decimals : timingCfg = [name |-> n, decimal |-> d]
    /\ wrapCall = NoWrapCall
    /\ invoked = <<>>

\* A call of the wrapper, up to the point where the function runs.
\* time.perf_counter() never goes back.
TimingCall ==
    /\ wrapCall.pc = "idle"
    /\ wrapCall.calls < MaxCalls
    /\ \E args \in Args, start \in wrapCall.end..MaxClock :
        LET b == timingwrap_begin(timingCfg, start, args) IN
        /\ stdout' = stdout \o b.out
        /\ invoked' = Append(invoked, b.call)
        /\ wrapCall' = [pc |-> "in function", calls |-> wrapCall.calls + 1,
                        args |-> args, start |-> b.start, end |-> b.start,
                        outBefore |-> Len(stdout), result |-> "none",
                        thrown |-> "none", ret |-> "none", raised |-> "none"]
    /\ UNCHANGED timingCfg

\* The function returns res and the wrapper runs to its end.
TimingFunctionReturns ==
    /\ wrapCall.pc = "in function"
    /\ \E res \in Results, end \in wrapCall.start..MaxClock :
        LET e == timingwrap_end(timingCfg, wrapCall.start, end, res) IN
        /\ stdout' = stdout \o e.out
        /\ wrapCall' = [wrapCall EXCEPT !.pc = "idle", !.end = end,
                                        !.result = res, !.ret = e.ret]
    /\ UNCHANGED <<timingCfg, invoked>>

\* The function raises: nothing in the wrapper catches it.
TimingFunctionRaises ==
    /\ wrapCall.pc = "in function"
    /\ \E e \in Exceptions, end \in wrapCall.start..MaxClock :
        LET r == timingwrap_raise(timingCfg, e) IN
        /\ stdout' = stdout \o r.out
        /\ wrapCall' = [wrapCall EXCEPT !.pc = "idle", !.end = end, !.thrown = e,
                                        !.raised = r.raised]
    /\ UNCHANGED <<timingCfg, invoked>>

(***************************************************************************)
(* ColorFind                                                               *)
(***************************************************************************)
Min(a, b) == IF a < b THEN a ELSE b
Max(a, b) == IF a > b THEN a ELSE b

\* An array of h rows and w columns; px[<<y, x>>] is the element at row y,
\* column x: a <<B, G, R>> triple of an image, a number of a mask.
Array(h, w, px) == [kind |-> "ndarray", h |-> h, w |-> w, px |-> px]
Cells(h, w) == (0..(h - 1)) \X (0..(w - 1))

\* Python's [] and the tuple (x,).
PyList == [kind |-> "list", items |-> <<>>]
PyTuple1(x) == [kind |-> "tuple", items |-> <<x>>]

\* The values of a myColor / HsvVals argument: None, a str, [lower, upper].
ColorNone == [kind |-> "None", s |-> "", lower |-> <<>>, upper |-> <<>>]
ColorStr(s) == [ColorNone EXCEPT !.kind = "str", !.s = s]
ColorPair(lo, hi) == [ColorNone EXCEPT !.kind = "pair", !.lower = lo, !.upper = hi]

\* round(a / b) for a >= 0, b > 0, as the tables of cv2.cvtColor are filled.
RoundDiv(a, b) == (2 * a + b) \div (2 * b)

\* cv2.cvtColor(img, cv2.COLOR_BGR2HSV) on one 8-bit pixel: V is the largest
\* channel, S = 255 (V - min) / V, H half the hue angle in degrees, in the
\* 12-bit fixed point arithmetic of the library.
BGR2HSV(p) ==
    LET b == p[1]
        g == p[2]
        r == p[3]
        v == Max(b, Max(g, r))
        vmin == Min(b, Min(g, r))
        diff == v - vmin
        sdiv == IF v = 0 THEN 0 ELSE RoundDiv(255 * 4096, v)
        hdiv == IF diff = 0 THEN 0 ELSE RoundDiv(180 * 4096, 6 * diff)
        sat == (diff * sdiv + 2048) \div 4096
        h0 == IF v = r THEN g - b
              ELSE IF v = g THEN b - r + 2 * diff
              ELSE r - g + 4 * diff
        h1 == (h0 * hdiv + 2048) \div 4096
        hue == IF h1 < 0 THEN h1 + 180 ELSE h1
    IN <<hue, sat, v>>

cvtColor(img) == Array(img.h, img.w, [c \in Cells(img.h, img.w) |-> BGR2HSV(img.px[c])])

\* cv2.inRange with the upper bound taken as exclusive.
inRange_exclusive(src, lower, upper) ==
    Array(src.h, src.w,
          [c \in Cells(src.h, src.w) |->
              IF \A k \in 1..3 : lower[k] <= src.px[c][k] /\ src.px[c][k] < upper[k]
              THEN 255 ELSE 0])

\* cv2.inRange(src, lower, upper): 255 where every channel lies in
\* [lower, upper], 0 elsewhere.
inRange(src, lower, upper) ==
    Array(src.h, src.w,
          [c \in Cells(src.h, src.w) |->
              IF \A k \in 1..3 : lower[k] <= src.px[c][k] /\ src.px[c][k] <= upper[k]
              THEN 255 ELSE 0])

\* a & b on numbers of n bits.
RECURSIVE BitAnd(_, _, _)
BitAnd(a, b, n) ==
    IF n = 0 THEN 0
    ELSE 2 * BitAnd(a \div 2, b \div 2, n - 1) + (a % 2) * (b % 2)

\* cv2.bitwise_and(src1, src2, mask=mask): the AND where mask is not 0; the
\* new destination array is 0 elsewhere.
bitwise_and(src1, src2, mask) ==
    Array(src1.h, src1.w,
          [c \in Cells(src1.h, src1.w) |->
              IF mask.px[c] # 0
              THEN [k \in 1..3 |-> BitAnd(src1.px[c][k], src2.px[c][k], 8)]
              ELSE <<0, 0, 0>>])

\* ColorFind.MaskZone.
MaskZone(img, HsvVals) ==
    LET imgHSV == cvtColor(img)
        lower == HsvVals.lower
        upper == HsvVals.upper
        mask == inRange(imgHSV, lower, upper)
        imgResult == bitwise_and(img, img, mask)
    IN [imgResult |-> imgResult, mask |-> mask]

\* The window's trackbars as initTrackbars creates them.
DefaultSliders ==
    [HueMin |-> 0, HueMax |-> 179, SatMin |-> 0, SatMax |-> 255,
     ValMin |-> 0, ValMax |-> 255]

\* ColorFind.getTrackbarValues.
getTrackbarValues(bars) ==
    LET hmin == bars.HueMin
        smin == bars.SatMin
        vmin == bars.ValMin
        hmax == bars.HueMax
        smax == bars.SatMax
        vmax == bars.ValMax
    IN ColorPair(<<hmin, smin, vmin>>, <<hmax, smax, vmax>>)

\* ColorFind.getColorHSV: the preset, or None and two warnings.
getColorHSV(myColor) ==
    IF myColor = "red"
    THEN [output |-> ColorPair(<<146, 141, 77>>, <<179, 255, 255>>), log |-> <<>>]
    ELSE IF myColor = "green"
    THEN [output |-> ColorPair(<<44, 79, 111>>, <<79, 255, 255>>), log |-> <<>>]
    ELSE IF myColor = "blue"
    THEN [output |-> ColorPair(<<103, 68, 130>>, <<128, 255, 255>>), log |-> <<>>]
    ELSE [output |-> ColorNone,
          log |-> <<"Color Not Defined", "Available colors: red, green, blue ">>]

\* ColorFind.update that goes by myColor even when the sliders are on.
ColorFind_update_noslider(self, bars, img, myColor) ==
    LET preset == IF myColor.kind = "str"
                  THEN getColorHSV(myColor.s)
                  ELSE [output |-> myColor, log |-> <<>>]
        c2 == preset.output
        calls == IF myColor.kind = "str" THEN <<"getColorHSV">> ELSE <<>>
    IN IF c2.kind # "None"
       THEN LET m == MaskZone(img, c2) IN
            [imgColor |-> m.imgResult, mask |-> m.mask,
             log |-> preset.log, calls |-> Append(calls, "MaskZone")]
       ELSE [imgColor |-> PyTuple1(PyList), mask |-> PyList,
             log |-> preset.log, calls |-> calls]

\* ColorFind.update.  Line 194, imgColor = [], ends in a comma: it binds the
\* one-element tuple ([],).
ColorFind_update(self, bars, img, myColor) ==
    LET imgColor0 == PyTuple1(PyList)
        mask0 == PyList
        c1 == IF self.trackBar THEN getTrackbarValues(bars) ELSE myColor
        preset == IF c1.kind = "str"
                  THEN getColorHSV(c1.s)
                  ELSE [output |-> c1, log |-> <<>>]
        c2 == preset.output
        calls == (IF self.trackBar THEN <<"getTrackbarValues">> ELSE <<>>)
                 \o (IF c1.kind = "str" THEN <<"getColorHSV">> ELSE <<>>)
    IN IF c2.kind # "None"
       THEN LET m == MaskZone(img, c2) IN
            [imgColor |-> m.imgResult, mask |-> m.mask,
             log |-> preset.log, calls |-> Append(calls, "MaskZone")]
       ELSE [imgColor |-> imgColor0, mask |-> mask0,
             log |-> preset.log, calls |-> calls]

\* Python's slice start:stop over n elements: negative bounds count from the
\* end, bounds beyond the ends are clipped.
SliceBound(i, n) == IF i < 0 THEN Max(i + n, 0) ELSE Min(i, n)
Slice(start, stop, n) == SliceBound(start, n)..(SliceBound(stop, n) - 1)

\* ColorFind.protect_region with rows and columns taken for each other.
protect_region_swapped(mask, threshold) ==
    IF threshold.kind = "None"
    THEN mask
    ELSE LET x_start == threshold.v[1]
             x_end == threshold.v[2]
             y_start == threshold.v[3]
             y_end == threshold.v[4]
         IN [mask EXCEPT !.px =
                [c \in Cells(mask.h, mask.w) |->
                    IF /\ c[1] \in Slice(x_start, x_end, mask.h)
                       /\ c[2] \in Slice(y_start, y_end, mask.w)
                    THEN 0 ELSE mask.px[c]]]

\* ColorFind.protect_region: mask[y_start:y_end, x_start:x_end] = 0.
protect_region(mask, threshold) ==
    IF threshold.kind = "None"
    THEN mask
    ELSE LET x_start == threshold.v[1]
             x_end == threshold.v[2]
             y_start == threshold.v[3]
             y_end == threshold.v[4]
         IN [mask EXCEPT !.px =
                [c \in Cells(mask.h, mask.w) |->
                    IF /\ c[1] \in Slice(y_start, y_end, mask.h)
                       /\ c[2] \in Slice(x_start, x_end, mask.w)
                    THEN 0 ELSE mask.px[c]]]

\* The inputs of the model: pixels at and around the bounds of the presets.
Palette ==
    { <<0, 0, 0>>,        \* HSV   0,   0,   0
      <<0, 255, 0>>,      \* HSV  60, 255, 255
      <<255, 0, 221>>,    \* HSV 146, 255, 255
      <<255, 0, 213>> }   \* HSV 145, 255, 255
Shapes == { hw \in (1..MaxPixels) \X (1..MaxPixels) : hw[1] * hw[2] <= MaxPixels }
Frames ==
    UNION { { Array(hw[1], hw[2], px) : px \in [Cells(hw[1], hw[2]) -> Palette] } :
            hw \in Shapes }
Lowers == { <<0, 0, 0>>, <<60, 255, 255>>, <<146, 0, 0>> }
Uppers == { <<179, 255, 255>>, <<60, 255, 255>>, <<145, 255, 255>> }
ColorArgs ==
    {ColorNone}
    \cup { ColorStr(n) : n \in {"red", "green", "blue", "purple"} }
    \cup { ColorPair(lo, hi) : lo \in Lowers, hi \in Uppers }
SliderStops ==
    [HueMin |-> {0, 146}, HueMax |-> {179, 145}, SatMin |-> {0},
     SatMax |-> {255}, ValMin |-> {0}, ValMax |-> {255, 0}]

NoColorCall == [op |-> "init", imgColor |-> PyList, mask |-> PyList,
                output |-> ColorNone, log |-> <<>>, calls |-> <<>>]

\* ColorFind(trackBar): with trackBar set, initTrackbars creates the window.
ColorInit ==
    /\ trackBar \in BOOLEAN
    /\ sliders = DefaultSliders
    /\ frame \in Frames
    /\ colorArg \in ColorArgs
    /\ colorCall = NoColorCall

\* The user drags one trackbar of the window.
ColorMoveSlider ==
    /\ trackBar
    /\ \E name \in DOMAIN SliderStops : \E pos \in SliderStops[name] :
        sliders' = [sliders EXCEPT ![name] = pos]
    /\ colorCall' = NoColorCall
    /\ UNCHANGED <<trackBar, frame, colorArg>>

\* update(frame, colorArg).
ColorUpdate ==
    LET r == ColorFind_update([trackBar |-> trackBar], sliders, frame, colorArg) IN
    /\ colorCall' = [op |-> "update", imgColor |-> r.imgColor, mask |-> r.mask,
                     output |-> ColorNone, log |-> r.log, calls |-> r.calls]
    /\ UNCHANGED <<trackBar, sliders, frame, colorArg>>

\* MaskZone(frame, colorArg), for a [lower, upper] argument.
ColorMaskZone ==
    /\ colorArg.kind = "pair"
    /\ LET m == MaskZone(frame, colorArg) IN
       colorCall' = [op |-> "MaskZone", imgColor |-> m.imgResult, mask |-> m.mask,
                     output |-> ColorNone, log |-> <<>>, calls |-> <<>>]
    /\ UNCHANGED <<trackBar, sliders, frame, colorArg>>

\* getColorHSV(colorArg), for a str argument.
ColorGetColorHSV ==
    /\ colorArg.kind = "str"
    /\ LET r == getColorHSV(colorArg.s) IN
       colorCall' = [op |-> "getColorHSV", imgColor |-> PyList, mask |-> PyList,
                     output |-> r.output, log |-> r.log, calls |-> <<>>]
    /\ UNCHANGED <<trackBar, sliders, frame, colorArg>>

\* The masks and thresholds given to protect_region.
Masks ==
    UNION { { Array(h, w, px) : px \in [Cells(h, w) -> {0, 255}] } :
            h \in 1..MaxH, w \in 1..MaxW }
ThresholdNone == [kind |-> "None", v |-> <<>>]
Thresholds ==
    {ThresholdNone}
    \cup { [kind |-> "list", v |-> <<x0, x1, y0, y1>>] :
           x0 \in 0..MaxW, x1 \in 0..MaxW, y0 \in 0..MaxH, y1 \in 0..MaxH }

ProtInit ==
    /\ protMask \in Masks
    /\ protArg \in Thresholds
    /\ protCall = [op |-> "init", pre |-> protMask, ret |-> protMask]

\* protect_region(protMask, protArg): the array is changed in place and
\* returned.
ProtectRegion ==
    LET r == protect_region(protMask, protArg) IN
    /\ protMask' = r
    /\ protCall' = [op |-> "protect_region", pre |-> protMask, ret |-> r]
    /\ UNCHANGED protArg

(***************************************************************************)
(* The specifications.                                                     *)
(***************************************************************************)
FPSIdle == pTime = 0 /\ fpsCall = NoFpsCall
TimerIdle ==
    /\ times = <<>> /\ gap = 0 /\ recorded = <<>>
    /\ timerCall = [op |-> "init", pre |-> [times |-> <<>>, gap |-> 0],
                    ret |-> RetNone, raised |-> "none", restarted |-> FALSE]
RuncodesIdle == runcodes = [description |-> "Done", timer |-> NoTimer] /\ scope = NoScope
TimingIdle ==
    /\ timingCfg = [name |-> "f", decimal |-> 5]
    /\ wrapCall = NoWrapCall
    /\ invoked = <<>>

ColorIdle ==
    /\ trackBar = FALSE /\ sliders = DefaultSliders /\ colorArg = ColorNone
    /\ frame = Array(1, 1, [c \in Cells(1, 1) |-> <<0, 0, 0>>])
    /\ colorCall = NoColorCall
ProtIdle ==
    /\ protMask = Array(1, 1, [c \in Cells(1, 1) |-> 0])
    /\ protArg = ThresholdNone
    /\ protCall = [op |-> "init", pre |-> protMask, ret |-> protMask]
OthersIdle(own) ==
    /\ own = "FPS" \/ FPSIdle
    /\ own = "Timer" \/ TimerIdle
    /\ own \in {"Runcodes", "timing"} \/ stdout = <<>>
    /\ own = "Runcodes" \/ RuncodesIdle
    /\ own = "timing" \/ TimingIdle
    /\ own = "ColorFind" \/ ColorIdle
    /\ own = "protect_region" \/ ProtIdle

InitFPS == FPSInit /\ OthersIdle("FPS")
NextFPS == FPSUpdate /\ UNCHANGED <<timerVars, stdout, runVars, wrapVars, colorVars, protVars>>
SpecFPS == InitFPS /\ [][NextFPS]_vars

InitTimer == TimerInit /\ OthersIdle("Timer")
NextTimer ==
    \/ TimerStart /\ UNCHANGED <<fpsVars, stdout, runVars, wrapVars, colorVars, protVars>>
    \/ TimerStop /\ UNCHANGED <<fpsVars, stdout, runVars, wrapVars, colorVars, protVars>>
    \/ TimerAvg /\ UNCHANGED <<fpsVars, stdout, runVars, wrapVars, colorVars, protVars>>
    \/ TimerTotal /\ UNCHANGED <<fpsVars, stdout, runVars, wrapVars, colorVars, protVars>>
    \/ TimerCumsum /\ UNCHANGED <<fpsVars, stdout, runVars, wrapVars, colorVars, protVars>>
SpecTimer == InitTimer /\ [][NextTimer]_vars

InitRuncodes == RuncodesInit /\ stdout = <<>> /\ OthersIdle("Runcodes")
NextRuncodes ==
    \/ RuncodesEnter /\ UNCHANGED <<fpsVars, timerVars, wrapVars, colorVars, protVars>>
    \/ RuncodesBodyEnds /\ UNCHANGED <<fpsVars, timerVars, wrapVars, colorVars, protVars>>
    \/ RuncodesExit /\ UNCHANGED <<fpsVars, timerVars, wrapVars, colorVars, protVars>>
SpecRuncodes == InitRuncodes /\ [][NextRuncodes]_vars

InitTiming == TimingInit /\ stdout = <<>> /\ OthersIdle("timing")
NextTiming ==
    \/ TimingCall /\ UNCHANGED <<fpsVars, timerVars, runVars, colorVars, protVars>>
    \/ TimingFunctionReturns /\ UNCHANGED <<fpsVars, timerVars, runVars, colorVars, protVars>>
    \/ TimingFunctionRaises /\ UNCHANGED <<fpsVars, timerVars, runVars, colorVars, protVars>>
SpecTiming == InitTiming /\ [][NextTiming]_vars

othersOfColor == <<fpsVars, timerVars, stdout, runVars, wrapVars, protVars>>
InitColor == ColorInit /\ OthersIdle("ColorFind")
NextColor ==
    \/ ColorMoveSlider /\ UNCHANGED othersOfColor
    \/ ColorUpdate /\ UNCHANGED othersOfColor
    \/ ColorMaskZone /\ UNCHANGED othersOfColor
    \/ ColorGetColorHSV /\ UNCHANGED othersOfColor
SpecColor == InitColor /\ [][NextColor]_vars

InitProtect == ProtInit /\ OthersIdle("protect_region")
NextProtect ==
    ProtectRegion /\ UNCHANGED <<fpsVars, timerVars, stdout, runVars, wrapVars, colorVars>>
SpecProtect == InitProtect /\ [][NextProtect]_vars

(***************************************************************************)
(* The claims.                                                             *)
(***************************************************************************)
\* The sum of the first i elements of s.
RECURSIVE PrefixSum(_, _)
PrefixSum(s, i) == IF i = 0 THEN 0 ELSE s[i] + PrefixSum(s, i - 1)

\* C1: once stop() has been called n >= 1 times, the samples are the values
\* stop() returned, in call order, whatever start() calls came in between;
\* cumsum() returns n running sums, the i-th the sum of the first i samples
\* and the last equal to total(); avg() returns total() / n.
C1_CumsumTotalAvg ==
    LET n == Len(recorded)
        c == timerCall.ret.list
    IN n >= 1 =>
        /\ times = recorded
        /\ timerCall.op = "cumsum" =>
             /\ timerCall.raised = "none"
             /\ Len(c) = n
             /\ \A i \in 1..n : c[i] = PrefixSum(recorded, i)
             /\ RetNum(c[n]) = Timer_total(TimerSelf).ret
        /\ timerCall.op = "total" =>
             timerCall.ret = RetNum(PrefixSum(recorded, n))
        /\ timerCall.op = "avg" =>
             /\ timerCall.raised = "none"
             /\ timerCall.ret = RetQuot(Quot(Timer_total(TimerSelf).ret.val, n))

\* C1's case: cumsum() over two different samples with a start() in between.
C1_Witness ==
    /\ timerCall.op = "cumsum"
    /\ Len(recorded) >= 2
    /\ recorded[1] # recorded[2]
    /\ timerCall.restarted

\* C2: an update() that reads the clock value already stored in pTime
\* returns 0 and raises nothing, with or without an image.
C2_ZeroIntervalReturnsZero ==
    (fpsCall.op = "update" /\ fpsCall.now = fpsCall.pre) =>
        /\ fpsCall.ret = FpsZero
        /\ fpsCall.raised = "none"

\* C2's case: a zero interval on a call that was given an image.
C2_Witness ==
    /\ fpsCall.op = "update"
    /\ fpsCall.now = fpsCall.pre
    /\ fpsCall.img = FrameImg

\* A query on a timer with no sample left the timer as it was.
EmptyQueryUnchanged ==
    /\ times = timerCall.pre.times
    /\ gap = timerCall.pre.gap

\* C3 as stated: on a timer with no sample both avg() and total() fail with
\* an error, and leave the samples and the start time unchanged.
C3_BothFail ==
    (timerCall.op \in {"avg", "total"} /\ Len(timerCall.pre.times) = 0) =>
        /\ timerCall.raised # "none"
        /\ EmptyQueryUnchanged

\* C3 amended: on a timer with no sample avg() fails with a division by
\* zero, total() returns 0, and both leave the samples and the start time
\* unchanged.
C3_AvgFailsTotalZero ==
    /\ (timerCall.op = "avg" /\ Len(timerCall.pre.times) = 0) =>
         /\ timerCall.raised = "ZeroDivisionError"
         /\ EmptyQueryUnchanged
    /\ (timerCall.op = "total" /\ Len(timerCall.pre.times) = 0) =>
         /\ timerCall.raised = "none"
         /\ timerCall.ret = RetNum(0)
         /\ EmptyQueryUnchanged

\* C3's case: avg() called on a timer that was never stopped.
C3_Witness ==
    /\ timerCall.op = "avg"
    /\ Len(timerCall.pre.times) = 0
    /\ recorded = <<>>

\* C4: without sliders, update() with no myColor or with a name that is no
\* preset does no masking and returns the pair ([], []).
C4_NoBoundsReturnsEmptyLists ==
    ( /\ colorCall.op = "update"
      /\ ~trackBar
      /\ \/ colorArg.kind = "None"
         \/ colorArg.kind = "str" /\ colorArg.s \notin {"red", "green", "blue"} ) =>
        /\ colorCall.imgColor = PyList
        /\ colorCall.mask = PyList
        /\ \A i \in 1..Len(colorCall.calls) : colorCall.calls[i] # "MaskZone"

\* C5: for a rectangle inside the mask, protect_region returns the mask with
\* 0 at every row in [y0, y1) and column in [x0, x1) and every other element
\* as it was; with no rectangle it returns the mask as it was.
C5_ProtectRegionZeroesRectangle ==
    LET m == protCall.pre
        r == protCall.ret
    IN protCall.op = "protect_region" =>
        /\ protMask = r
        /\ r.h = m.h /\ r.w = m.w
        /\ protArg.kind = "None" => r = m
        /\ protArg.kind = "list" =>
             LET x0 == protArg.v[1]
                 x1 == protArg.v[2]
                 y0 == protArg.v[3]
                 y1 == protArg.v[4]
             IN (0 <= x0 /\ x0 <= x1 /\ x1 <= m.w /\ 0 <= y0 /\ y0 <= y1 /\ y1 <= m.h) =>
                  \A c \in Cells(m.h, m.w) :
                      r.px[c] = IF /\ y0 <= c[1] /\ c[1] < y1
                                   /\ x0 <= c[2] /\ c[2] < x1
                                THEN 0 ELSE m.px[c]

\* C5's case: one column of a two by two mask of 255s is zeroed.
C5_Witness ==
    /\ protCall.op = "protect_region"
    /\ protArg = [kind |-> "list", v |-> <<0, 1, 0, 2>>]
    /\ protCall.pre.h = 2 /\ protCall.pre.w = 2
    /\ \A c \in Cells(2, 2) : protCall.pre.px[c] = 255
    /\ protCall.ret.px[<<1, 0>>] = 0
    /\ protCall.ret.px[<<0, 1>>] = 255

\* The HSV values of the pixels of the palette.
PaletteHSV(p) ==
    CASE p = <<0, 0, 0>> -> <<0, 0, 0>>
      [] p = <<0, 255, 0>> -> <<60, 255, 255>>
      [] p = <<255, 0, 221>> -> <<146, 255, 255>>
      [] p = <<255, 0, 213>> -> <<145, 255, 255>>

\* C6: MaskZone returns a mask of 0s and 255s that is 255 exactly at the
\* pixels whose three HSV channels lie in [lower, upper], both ends included,
\* and an image equal to the input where the mask is 255 and 0 elsewhere.
C6_MaskZoneInclusiveRange ==
    LET mask == colorCall.mask
        res == colorCall.imgColor
    IN colorCall.op = "MaskZone" =>
        /\ mask.h = frame.h /\ mask.w = frame.w
        /\ res.h = frame.h /\ res.w = frame.w
        /\ \A c \in Cells(frame.h, frame.w) :
            LET hsv == PaletteHSV(frame.px[c]) IN
            /\ mask.px[c] \in {0, 255}
            /\ mask.px[c] # 0 <=>
                 \A k \in 1..3 : colorArg.lower[k] <= hsv[k] /\ hsv[k] <= colorArg.upper[k]
            /\ res.px[c] = IF mask.px[c] # 0 THEN frame.px[c] ELSE <<0, 0, 0>>

\* C6's case: a pixel with hue on the lower bound and saturation and value
\* on the upper bound is in the mask, its neighbour one hue below is not.
C6_Witness ==
    /\ colorCall.op = "MaskZone"
    /\ colorArg = ColorPair(<<146, 0, 0>>, <<179, 255, 255>>)
    /\ frame.h = 1 /\ frame.w = 2
    /\ frame.px[<<0, 0>>] = <<255, 0, 221>>
    /\ frame.px[<<0, 1>>] = <<255, 0, 213>>
    /\ colorCall.mask.px[<<0, 0>>] = 255
    /\ colorCall.mask.px[<<0, 1>>] = 0

\* C7: entering the scope makes a new started Timer; however the body ends,
\* __exit__ stops that Timer once and prints "<description>: <elapsed> sec"
\* with the time from entry to exit, and what the body raised goes on to
\* the caller.
C7_ScopeStopsAndReports ==
    LET t == runcodes.timer
        n == Len(stdout)
    IN
    /\ scope.pc = "body" =>
         t = [set |-> TRUE, times |-> <<>>, gap |-> scope.enterAt]
    /\ scope.pc # "outside" => n = scope.entered - 1
    /\ (scope.pc = "outside" /\ scope.entered >= 1) =>
         /\ t.times = <<scope.exitAt - scope.enterAt>>
         /\ n = scope.entered
         /\ stdout[n] = Line(<<runcodes.description, ": ", " sec">>,
                             Fixed(scope.exitAt - scope.enterAt, 7))
         /\ scope.propagated = scope.body

\* C7's case: a second scope over the same object, left by an exception.
C7_Witness ==
    /\ scope.pc = "outside"
    /\ scope.entered = 2
    /\ scope.body \in Exceptions
    /\ Len(stdout) = 2
    /\ stdout[2].number.value > 0

\* C8: with the slider flag set, update() returns what MaskZone gives for
\* the bounds the sliders show, whatever myColor is, and neither resolves a
\* preset nor logs a warning.
C8_SlidersOverrideColorSpec ==
    (colorCall.op = "update" /\ trackBar) =>
        LET m == MaskZone(frame,
                          ColorPair(<<sliders.HueMin, sliders.SatMin, sliders.ValMin>>,
                                    <<sliders.HueMax, sliders.SatMax, sliders.ValMax>>))
        IN /\ colorCall.imgColor = m.imgResult
           /\ colorCall.mask = m.mask
           /\ colorCall.log = <<>>
           /\ \A i \in 1..Len(colorCall.calls) : colorCall.calls[i] # "getColorHSV"

\* C8's case: sliders moved off their defaults, an unknown colour name given.
C8_Witness ==
    /\ colorCall.op = "update"
    /\ trackBar
    /\ colorArg = ColorStr("purple")
    /\ sliders.HueMin = 146
    /\ frame.h = 2
    /\ colorCall.mask.px[<<0, 0>>] = 255
    /\ colorCall.mask.px[<<1, 0>>] = 0

\* C9: the wrapper prints the function's name, then calls the function once
\* with its own arguments; only when the function has returned does it print
\* the name with the elapsed time, and it returns the function's result; an
\* exception of the function leaves the wrapper as it is.
C9_WrapperOrderAndResult ==
    LET n == Len(stdout)
        nameLine == Line(<<timingCfg.name>>, NoNumber)
        deltaLine == Line(<<timingCfg.name, "delta time (s) =">>,
                          Fixed(wrapCall.end - wrapCall.start, timingCfg.decimal))
    IN
    /\ Len(invoked) = wrapCall.calls
    /\ wrapCall.calls >= 1 => invoked[wrapCall.calls] = wrapCall.args
    /\ wrapCall.pc = "in function" =>
         /\ n = wrapCall.outBefore + 1
         /\ stdout[n] = nameLine
    /\ (wrapCall.pc = "idle" /\ wrapCall.result # "none") =>
         /\ n = wrapCall.outBefore + 2
         /\ stdout[n - 1] = nameLine
         /\ stdout[n] = deltaLine
         /\ wrapCall.ret = wrapCall.result
         /\ wrapCall.raised = "none"
    /\ (wrapCall.pc = "idle" /\ wrapCall.thrown # "none") =>
         /\ n = wrapCall.outBefore + 1
         /\ stdout[n] = nameLine
         /\ wrapCall.raised = wrapCall.thrown
         /\ wrapCall.ret = "none"

\* C9's case: a call that returned a result after a call that raised.
C9_Witness ==
    /\ wrapCall.pc = "idle"
    /\ wrapCall.calls = 2
    /\ wrapCall.result = "res1"
    /\ Len(stdout) = 3
    /\ wrapCall.end > wrapCall.start

=============================================================================
